---- MODULE Spec2Model ----
(***************************************************************************)
(* Model of the minesweeper game engine (src/src/minesweeper.rs): the      *)
(* Game struct, its grid, mine placement on the first click, reveal with   *)
(* zero propagation, flag toggling and win/loss detection.                 *)
(*                                                                         *)
(* A position is <<row, col>> with 0-based coordinates as in the source.   *)
(* The grid is GameGrid.data: a sequence of rows, each a sequence of       *)
(* cells [image, mine]; cell (row, col) is grid[row + 1][col + 1].         *)
(***************************************************************************)
EXTENDS Integers, Sequences, FiniteSets, TLC

(* ---- bounds of the model ---- *)

\* Largest width and largest height of a board.
MaxDim == 3

\* Largest number of cells (width * height) of a board.
MaxCells == 4

(* ---- CellImage ---- *)

Numerals == <<"Zero", "One", "Two", "Three", "Four", "Five", "Six", "Seven", "Eight">>

NumeralSet == {Numerals[i] : i \in 1..Len(Numerals)}

CellImage == NumeralSet \cup {"Mine", "WronglyFlagged", "SelectedMine",
                              "Hidden", "Flagged", "QuestionMarked"}

\* CellImage::from_number: defined for 0..8 only, the source panics above 8.
FromNumberDefined(num) == num \in 0..(Len(Numerals) - 1)

from_number(num) == Numerals[num + 1]

\* CellImage::shown
shown(image) == image \notin {"Hidden", "Flagged", "QuestionMarked"}

(* ---- GameGrid ---- *)

HiddenCell == [image |-> "Hidden", mine |-> FALSE]

GridHeight(g) == Len(g)

GridWidth(g) == IF GridHeight(g) = 0 THEN 0 ELSE Len(g[1])

\* GameGrid::resize: reallocates only when the dimensions differ.
GridResize(g, w, h) ==
    IF h # GridHeight(g) \/ w # GridWidth(g)
    THEN [r \in 1..h |-> [c \in 1..w |-> HiddenCell]]
    ELSE g

\* Whether indexing the grid at pos stays inside the vectors.
InGrid(g, pos) ==
    /\ pos[1] + 1 \in 1..Len(g)
    /\ pos[2] + 1 \in 1..Len(g[pos[1] + 1])

\* Index<Pos> for GameGrid
CellAt(g, pos) == g[pos[1] + 1][pos[2] + 1]

SetImage(g, pos, img) == [g EXCEPT ![pos[1] + 1][pos[2] + 1].image = img]

SetMine(g, pos, b) == [g EXCEPT ![pos[1] + 1][pos[2] + 1].mine = b]

(* ---- sequences as the source uses vectors ---- *)

\* Vec::swap_remove at 0-based index i: the last element takes its place.
SwapRemove(s, i) ==
    LET n == Len(s) IN
    [k \in 1..(n - 1) |-> IF k = i + 1 THEN s[n] ELSE s[k]]

\* Positions of the half-open row and column ranges, rows outermost.
RangeCells(rowFrom, rowTo, colFrom, colTo) ==
    LET nr == IF rowTo > rowFrom THEN rowTo - rowFrom ELSE 0
        nc == IF colTo > colFrom THEN colTo - colFrom ELSE 0
    IN  [k \in 1..(nr * nc) |->
            <<rowFrom + ((k - 1) \div nc), colFrom + ((k - 1) % nc)>>]

\* Lexicographic order of positions, as Ord for (u8, u8).
PosLess(p, q) == p[1] < q[1] \/ (p[1] = q[1] /\ p[2] < q[2])

PosMax(s) == CHOOSE p \in {s[i] : i \in 1..Len(s)} :
                \A q \in {s[i] : i \in 1..Len(s)} : ~PosLess(p, q)

(* ---- neighbourhoods ---- *)

Offsets == <<-1, 0, 1>>

\* Game::get_3x3: the in-bounds cells of the 3x3 block around pos, row-major.
get_3x3(w, h, pos) ==
    LET all == [k \in 1..9 |-> <<pos[1] + Offsets[((k - 1) \div 3) + 1],
                                 pos[2] + Offsets[((k - 1) % 3) + 1]>>]
        Ok(p) == p[1] >= 0 /\ p[1] < h /\ p[2] >= 0 /\ p[2] < w
    IN  SelectSeq(all, Ok)

\* Game::get_neighbors: the 3x3 block with pos swap-removed.
get_neighbors(w, h, pos) ==
    LET block == get_3x3(w, h, pos)
        idx == CHOOSE i \in 1..Len(block) : block[i] = pos
    IN  IF \E i \in 1..Len(block) : block[i] = pos
        THEN SwapRemove(block, idx - 1)
        ELSE block

\* get_hidden_neighbors that returns at most one neighbour.
get_hidden_neighbors_First(g, w, h, pos) ==
    LET IsHidden(p) == CellAt(g, p).image = "Hidden"
        all == SelectSeq(get_neighbors(w, h, pos), IsHidden)
    IN  IF all = <<>> THEN <<>> ELSE <<Head(all)>>

\* Game::get_hidden_neighbors
get_hidden_neighbors(g, w, h, pos) ==
    LET IsHidden(p) == CellAt(g, p).image = "Hidden"
    IN  SelectSeq(get_neighbors(w, h, pos), IsHidden)

\* get_mines_around that counts the mines of the row of pos only.
get_mines_around_Row(g, w, h, pos) ==
    LET block == get_3x3(w, h, pos)
    IN  Cardinality({i \in 1..Len(block) :
            block[i][1] = pos[1] /\ CellAt(g, block[i]).mine})

\* Game::get_mines_around: counts the mines of the 3x3 block, pos included.
get_mines_around(g, w, h, pos) ==
    LET block == get_3x3(w, h, pos)
    IN  Cardinality({i \in 1..Len(block) : CellAt(g, block[i]).mine})

(* ---- the Game struct as a value ---- *)

\* Reasons a call can abort: the source's assertions and implicit panics.
PanicLeftAssert == "left_click invalid location"

PanicRightAssert == "toggle_flag invalid location"

PanicToggleAssert == "invalid location"

PanicIndex == "index out of bounds"

PanicEmptyRange == "cannot sample empty range"

PanicOverflow == "arithmetic overflow"

PanicFromNumber == "Invalid number"

\* What a call leaves behind: the game, the returned list, and the panic if
\* the call aborted ("none" otherwise).
Outcome(G, res, p) == [game |-> G, result |-> res, panic |-> p]

\* Positions of the board in the order of the nested row/col loops.
BoardCells(w, h) == RangeCells(0, h, 0, w)

(* ---- Game::show ---- *)

\* LossScanImage that turns every unrevealed mine into Mine, marked or not.
LossScanImage_AllMines(cell) ==
    IF cell.mine /\ ~shown(cell.image) THEN "Mine"
    ELSE IF ~cell.mine /\ cell.image = "Flagged" THEN "WronglyFlagged"
    ELSE cell.image

\* The image the loss scan leaves on one cell (source lines 254-260).
LossScanImage(cell) ==
    IF cell.mine /\ cell.image = "Hidden" THEN "Mine"
    ELSE IF ~cell.mine /\ cell.image = "Flagged" THEN "WronglyFlagged"
    ELSE cell.image

RECURSIVE LossScan(_, _, _)
\* The scan of the whole grid after a mine was selected: st = [grid, result].
LossScan(g, ps, res) ==
    IF ps = <<>> THEN [grid |-> g, result |-> res]
    ELSE LET p == Head(ps)
             img == LossScanImage(CellAt(g, p))
         IN  IF img # CellAt(g, p).image
             THEN LossScan(SetImage(g, p, img), Tail(ps), Append(res, <<p, img>>))
             ELSE LossScan(g, Tail(ps), res)

\* FirstMineSeed that blames the first seed whenever some seed is a mine.
FirstMineSeed_First(g, cells) ==
    IF \E i \in 1..Len(cells) : CellAt(g, cells[i]).mine THEN 1 ELSE 0

\* 1-based index of the first seed that is a mine, 0 if there is none.
FirstMineSeed(g, cells) ==
    LET hits == {i \in 1..Len(cells) : CellAt(g, cells[i]).mine}
    IN  IF hits = {} THEN 0 ELSE CHOOSE i \in hits : \A j \in hits : i <= j

RECURSIVE Reveal_ThroughMarks(_, _, _)
\* The work-stack loop that treats every unrevealed cell as Hidden: it
\* reveals marked cells and spreads to marked neighbours.
Reveal_ThroughMarks(G, stack, res) ==
    IF stack = <<>> THEN Outcome(G, res, "none")
    ELSE LET pos == stack[Len(stack)]
             rest == SubSeq(stack, 1, Len(stack) - 1)
         IN  IF shown(CellAt(G.grid, pos).image) THEN Reveal_ThroughMarks(G, rest, res)
             ELSE IF G.hidden = 0 THEN Outcome(G, <<>>, PanicOverflow)
             ELSE LET mines_around == get_mines_around(G.grid, G.width, G.height, pos)
                      G1 == [G EXCEPT !.hidden = G.hidden - 1]
                  IN  IF ~FromNumberDefined(mines_around)
                      THEN Outcome(G1, <<>>, PanicFromNumber)
                      ELSE LET img == from_number(mines_around)
                               G2 == [G1 EXCEPT !.grid = SetImage(G1.grid, pos, img)]
                               Unrevealed(p) == ~shown(CellAt(G2.grid, p).image)
                               more == IF mines_around = 0
                                       THEN SelectSeq(get_neighbors(G2.width, G2.height, pos),
                                                      Unrevealed)
                                       ELSE <<>>
                           IN  Reveal_ThroughMarks(G2, rest \o more,
                                                   Append(res, <<pos, img>>))

RECURSIVE Reveal_ReportPops(_, _, _)
\* The work-stack loop that also reports the positions it pops and skips.
Reveal_ReportPops(G, stack, res) ==
    IF stack = <<>> THEN Outcome(G, res, "none")
    ELSE LET pos == stack[Len(stack)]
             rest == SubSeq(stack, 1, Len(stack) - 1)
             image == CellAt(G.grid, pos).image
         IN  IF image # "Hidden"
             THEN Reveal_ReportPops(G, rest, Append(res, <<pos, image>>))
             ELSE IF G.hidden = 0 THEN Outcome(G, <<>>, PanicOverflow)
             ELSE LET mines_around == get_mines_around(G.grid, G.width, G.height, pos)
                      G1 == [G EXCEPT !.hidden = G.hidden - 1]
                  IN  IF ~FromNumberDefined(mines_around)
                      THEN Outcome(G1, <<>>, PanicFromNumber)
                      ELSE LET img == from_number(mines_around)
                               G2 == [G1 EXCEPT !.grid = SetImage(G1.grid, pos, img)]
                               more == IF mines_around = 0
                                       THEN get_hidden_neighbors(G2.grid, G2.width, G2.height, pos)
                                       ELSE <<>>
                           IN  Reveal_ReportPops(G2, rest \o more, Append(res, <<pos, img>>))

RECURSIVE Reveal(_, _, _)
\* The work-stack loop of show (source lines 267-285).
Reveal(G, stack, res) ==
    IF stack = <<>> THEN Outcome(G, res, "none")
    ELSE LET pos == stack[Len(stack)]
             rest == SubSeq(stack, 1, Len(stack) - 1)
         IN  IF CellAt(G.grid, pos).image # "Hidden" THEN Reveal(G, rest, res)
             ELSE IF G.hidden = 0 THEN Outcome(G, <<>>, PanicOverflow)
             ELSE LET mines_around == get_mines_around(G.grid, G.width, G.height, pos)
                      G1 == [G EXCEPT !.hidden = G.hidden - 1]
                  IN  IF ~FromNumberDefined(mines_around)
                      THEN Outcome(G1, <<>>, PanicFromNumber)
                      ELSE LET img == from_number(mines_around)
                               G2 == [G1 EXCEPT !.grid = SetImage(G1.grid, pos, img)]
                               more == IF mines_around = 0
                                       THEN get_hidden_neighbors(G2.grid, G2.width, G2.height, pos)
                                       ELSE <<>>
                           IN  Reveal(G2, rest \o more, Append(res, <<pos, img>>))

RECURSIVE RevealPops(_, _)
\* The number of times the work-stack loop of show pops a position before
\* the stack is empty (source lines 269-284).
RevealPops(G, stack) ==
    IF stack = <<>> THEN 0
    ELSE LET pos == stack[Len(stack)]
             rest == SubSeq(stack, 1, Len(stack) - 1)
         IN  IF CellAt(G.grid, pos).image # "Hidden" THEN 1 + RevealPops(G, rest)
             ELSE LET mines_around == get_mines_around(G.grid, G.width, G.height, pos)
                      img == from_number(mines_around)
                      G2 == [G EXCEPT !.grid = SetImage(G.grid, pos, img)]
                      more == IF mines_around = 0
                              THEN get_hidden_neighbors(G2.grid, G2.width, G2.height, pos)
                              ELSE <<>>
                  IN  1 + RevealPops(G2, rest \o more)

\* The loss branch of show that leaves game_state as it is.
ShowLoss_KeepState(G, cells, i) ==
    LET pos == cells[i]
        g1 == SetImage(G.grid, pos, "SelectedMine")
        scan == LossScan(g1, BoardCells(G.width, G.height), <<<<pos, "SelectedMine">>>>)
    IN  Outcome([G EXCEPT !.grid = scan.grid], scan.result, "none")

\* The loss branch of show for the seed at 1-based index i (lines 247-264).
ShowLoss(G, cells, i) ==
    LET pos == cells[i]
        g1 == SetImage(G.grid, pos, "SelectedMine")
        scan == LossScan(g1, BoardCells(G.width, G.height), <<<<pos, "SelectedMine">>>>)
    IN  Outcome([G EXCEPT !.game_state = "AfterGame", !.grid = scan.grid],
                scan.result, "none")

\* show that reveals the safe seeds before it ends the game on a mine.
show_NoShortCircuit(G, cells) ==
    LET i == FirstMineSeed(G.grid, cells)
        Safe(p) == ~CellAt(G.grid, p).mine
        r == Reveal(G, SelectSeq(cells, Safe), <<>>)
        l == ShowLoss(r.game, cells, i)
    IN  IF i # 0 THEN Outcome(l.game, l.result \o r.result, r.panic)
        ELSE Reveal(G, cells, <<>>)

show(G, cells) ==
    LET i == FirstMineSeed(G.grid, cells)
    IN  IF i # 0 THEN ShowLoss(G, cells, i) ELSE Reveal(G, cells, <<>>)

(* ---- flag toggling ---- *)

\* The assertion of toggle_tofrom_given (source lines 303-306).
ToggleAssertion(w, h, pos) == pos[2] < h /\ pos[1] < w

\* toggle_tofrom_given that decrements flags whenever it writes the given
\* image, whether or not the cell was Flagged.
toggle_tofrom_given_AlwaysDecrement(G, pos, given) ==
    IF ~ToggleAssertion(G.width, G.height, pos) THEN Outcome(G, <<>>, PanicToggleAssert)
    ELSE IF ~InGrid(G.grid, pos) THEN Outcome(G, <<>>, PanicIndex)
    ELSE LET image == CellAt(G.grid, pos).image IN
         IF image = given
         THEN Outcome([G EXCEPT !.grid = SetImage(G.grid, pos, "Flagged"),
                                !.flags = G.flags + 1],
                      <<<<pos, "Flagged">>>>, "none")
         ELSE IF G.flags = 0
         THEN Outcome(G, <<>>, PanicOverflow)
         ELSE Outcome([G EXCEPT !.grid = SetImage(G.grid, pos, given),
                                !.flags = G.flags - 1],
                      <<<<pos, given>>>>, "none")

\* Game::toggle_tofrom_given; the result holds the one returned pair.
toggle_tofrom_given(G, pos, given) ==
    IF ~ToggleAssertion(G.width, G.height, pos) THEN Outcome(G, <<>>, PanicToggleAssert)
    ELSE IF ~InGrid(G.grid, pos) THEN Outcome(G, <<>>, PanicIndex)
    ELSE LET image == CellAt(G.grid, pos).image IN
         IF image = given
         THEN Outcome([G EXCEPT !.grid = SetImage(G.grid, pos, "Flagged"),
                                !.flags = G.flags + 1],
                      <<<<pos, "Flagged">>>>, "none")
         ELSE IF image = "Flagged" /\ G.flags = 0
         THEN Outcome(G, <<>>, PanicOverflow)
         ELSE Outcome([G EXCEPT !.grid = SetImage(G.grid, pos, given),
                                !.flags = IF image = "Flagged" THEN G.flags - 1
                                          ELSE G.flags],
                      <<<<pos, given>>>>, "none")

\* toggle_tofrom_hidden that toggles to and from the wrong image.
toggle_tofrom_hidden_AsQuestion(G, pos) == toggle_tofrom_given(G, pos, "QuestionMarked")

toggle_tofrom_hidden(G, pos) == toggle_tofrom_given(G, pos, "Hidden")

\* toggle_tofrom_question_marked that toggles to and from Hidden.
toggle_tofrom_question_marked_AsHidden(G, pos) == toggle_tofrom_given(G, pos, "Hidden")

toggle_tofrom_question_marked(G, pos) == toggle_tofrom_given(G, pos, "QuestionMarked")

(* ---- Game::handle_win ---- *)

\* WinImage that leaves the mines as they are.
WinImage_Keep(cell) == cell.image

\* WinImage that flags only the mines still Hidden.
WinImage_HiddenOnly(cell) ==
    IF cell.mine /\ cell.image = "Hidden" THEN "Flagged" ELSE cell.image

\* The image handle_win leaves on one cell (source lines 333-335).
WinImage(cell) == IF cell.mine /\ cell.image # "Flagged" THEN "Flagged" ELSE cell.image

RECURSIVE WinScan(_, _, _)
WinScan(g, ps, res) ==
    IF ps = <<>> THEN [grid |-> g, result |-> res]
    ELSE LET p == Head(ps)
             img == WinImage(CellAt(g, p))
         IN  IF img # CellAt(g, p).image
             THEN WinScan(SetImage(g, p, img), Tail(ps), Append(res, <<p, img>>))
             ELSE WinScan(g, Tail(ps), res)

\* handle_win that forgets to set the flag counter.
handle_win_KeepFlags(G) ==
    LET scan == WinScan(G.grid, BoardCells(G.width, G.height), <<>>)
    IN  Outcome([G EXCEPT !.game_state = "AfterGame", !.grid = scan.grid],
                scan.result, "none")

handle_win(G) ==
    LET scan == WinScan(G.grid, BoardCells(G.width, G.height), <<>>)
    IN  Outcome([G EXCEPT !.game_state = "AfterGame", !.grid = scan.grid,
                          !.flags = G.total_mines],
                scan.result, "none")

(* ---- Game::start_game ---- *)

\* HideAll that leaves the images of the safe cells as they are.
HideAll_Keep(g, ps) == g

RECURSIVE HideAll(_, _)
\* safe_cells.iter().for_each(image = Hidden) (source lines 379-381).
HideAll(g, ps) ==
    IF ps = <<>> THEN g ELSE HideAll(SetImage(g, Head(ps), "Hidden"), Tail(ps))

\* ClearMines that leaves the mine bits of the safe cells as they are.
ClearMines_Keep(g, ps) == g

RECURSIVE ClearMines(_, _)
\* safe_cells.iter().for_each(mine = false) (source lines 402-404).
ClearMines(g, ps) ==
    IF ps = <<>> THEN g ELSE ClearMines(SetMine(g, Head(ps), FALSE), Tail(ps))

\* A range that includes its upper end.
RandomRange_Inclusive(n) == 0..n

\* The values rng.random_range(0..n) can return.
RandomRange(n) == 0..(n - 1)

\* IndexToBeMine without the swap that protects the clicked cell.
IndexToBeMine_NoSwap(safe_cells, index, clicked) == index

\* The index of the safe cell that becomes a mine for a drawn index: the
\* clicked cell is swapped for the last one (source lines 394-398).
IndexToBeMine(safe_cells, index, clicked) ==
    IF safe_cells[index + 1] = clicked THEN Len(safe_cells) - 1 ELSE index

RECURSIVE MakeUnsafe(_, _, _)
\* The loop that turns n safe cells into mines (source lines 392-400), as the
\* set of its possible results; st = [grid, safe_cells, panic].
MakeUnsafe(st, n, clicked) ==
    IF n = 0 \/ st.panic # "none" THEN {st}
    ELSE IF Len(st.safe_cells) = 0 THEN {[st EXCEPT !.panic = PanicOverflow]}
    ELSE IF RandomRange(Len(st.safe_cells) - 1) = {}
    THEN {[st EXCEPT !.panic = PanicEmptyRange]}
    ELSE UNION {
        LET i == IndexToBeMine(st.safe_cells, index, clicked)
            p == st.safe_cells[i + 1]
        IN  MakeUnsafe([st EXCEPT !.grid = SetMine(st.grid, p, TRUE),
                                  !.safe_cells = SwapRemove(st.safe_cells, i)],
                       n - 1, clicked)
        : index \in RandomRange(Len(st.safe_cells) - 1) }

\* FillOrder without the cells to the right of the safe zone.
FillOrder_SkipRight(w, h, first, last) ==
    RangeCells(0, first[1], 0, w)
    \o RangeCells(first[1], last[1] + 1, 0, first[2])
    \o RangeCells(last[1] + 1, h, 0, w)

\* FillOrder whose last region starts on the last row of the safe zone.
FillOrder_FromLastRow(w, h, first, last) ==
    RangeCells(0, first[1], 0, w)
    \o RangeCells(first[1], last[1] + 1, 0, first[2])
    \o RangeCells(first[1], last[1] + 1, last[2] + 1, w)
    \o RangeCells(last[1], h, 0, w)

\* The cells the four fill_with_mines calls visit, in order (lines 420-423).
FillOrder(w, h, first, last) ==
    LET next_normal_row == last[1] + 1
        next_normal_col == last[2] + 1
    IN  RangeCells(0, first[1], 0, w)
        \o RangeCells(first[1], next_normal_row, 0, first[2])
        \o RangeCells(first[1], next_normal_row, next_normal_col, w)
        \o RangeCells(next_normal_row, h, 0, w)

RECURSIVE FillWithMines(_, _)
\* The body of fill_with_mines over the cells ps (source lines 407-418), as
\* the set of its possible results;
\* st = [grid, cells_remaining, mines_remaining, panic].
FillWithMines(st, ps) ==
    IF ps = <<>> \/ st.panic # "none" THEN {st}
    ELSE IF RandomRange(st.cells_remaining) = {}
    THEN {[st EXCEPT !.panic = PanicEmptyRange]}
    ELSE UNION {
        LET cell == [image |-> "Hidden", mine |-> is_mine] IN
        FillWithMines([st EXCEPT
                          !.grid[Head(ps)[1] + 1][Head(ps)[2] + 1] = cell,
                          !.cells_remaining = st.cells_remaining - 1,
                          !.mines_remaining = IF is_mine THEN st.mines_remaining - 1
                                              ELSE st.mines_remaining],
                      Tail(ps))
        : is_mine \in {r < st.mines_remaining : r \in RandomRange(st.cells_remaining)} }

\* The largest value of a Dim (u8) and of a Count (u16).
DimMax == 255

CountMax == 65535

\* The u8 additions last_special_row + 1 and last_special_col + 1 (source
\* line 388) leave the range of the type.
NextNormalOverflows(last) == last[1] + 1 > DimMax \/ last[2] + 1 > DimMax

\* Game::start_game, as the set of its possible outcomes.
start_game(G, pos) ==
    LET width == G.width
        height == G.height
        hidden == height * width
        safe_cells == get_3x3(width, height, pos)
        grid1 == HideAll(GridResize(G.grid, width, height), safe_cells)
        G1 == [G EXCEPT !.game_state = "DuringGame", !.hidden = hidden,
                        !.flags = 0, !.grid = grid1]
    IN  IF hidden < Len(safe_cells) THEN {Outcome(G1, <<>>, PanicOverflow)}
        ELSE IF safe_cells = <<>> THEN {Outcome(G1, <<>>, PanicIndex)}
        ELSE IF NextNormalOverflows(PosMax(safe_cells))
        THEN {Outcome(G1, <<>>, PanicOverflow)}
        ELSE
        LET cells_remaining == hidden - Len(safe_cells)
            first == safe_cells[1]
            last == PosMax(safe_cells)
            unsafe == IF cells_remaining < G.total_mines
                      THEN G.total_mines - cells_remaining ELSE 0
            mines_remaining == IF cells_remaining < G.total_mines
                               THEN cells_remaining ELSE G.total_mines
            picked == MakeUnsafe([grid |-> grid1, safe_cells |-> safe_cells,
                                  panic |-> "none"], unsafe, pos)
            filled == UNION {
                IF st.panic # "none"
                THEN {[grid |-> st.grid, panic |-> st.panic]}
                ELSE {[grid |-> f.grid, panic |-> f.panic] :
                        f \in FillWithMines(
                            [grid |-> ClearMines(st.grid, st.safe_cells),
                             cells_remaining |-> cells_remaining,
                             mines_remaining |-> mines_remaining,
                             panic |-> "none"],
                            FillOrder(width, height, first, last))}
                : st \in picked }
        IN  {Outcome([G1 EXCEPT !.grid = f.grid], <<>>, f.panic) : f \in filled}

(* ---- the public operations ---- *)

\* The assertion that also lets through what the allocated grid can index.
ClickAssertion_Grid(G, pos) ==
    InGrid(G.grid, pos) \/ (pos[1] < G.height /\ pos[2] < G.width)

\* The assertion of left_click and right_click (lines 195-199, 224-227).
ClickAssertion(G, pos) == pos[1] < G.height /\ pos[2] < G.width

\* The part of left_click after start_game with the check for a win made
\* on the counters as they were before the cells were shown.
LeftClickBody_LateWin(G, pos) ==
    IF ~InGrid(G.grid, pos) THEN Outcome(G, <<>>, PanicIndex)
    ELSE IF G.game_state # "DuringGame" THEN Outcome(G, <<>>, "none")
    ELSE LET image == CellAt(G.grid, pos).image
             o == IF image = "Hidden" THEN show(G, <<pos>>)
                  ELSE IF ~shown(image) THEN toggle_tofrom_question_marked(G, pos)
                  ELSE show(G, get_hidden_neighbors(G.grid, G.width, G.height, pos))
         IN  IF o.panic # "none" THEN o
             ELSE IF G.hidden = G.total_mines
             THEN LET win == handle_win(o.game)
                  IN  Outcome(win.game, o.result \o win.result, "none")
             ELSE o

\* The part of left_click after start_game without the check for a win.
LeftClickBody_NoWin(G, pos) ==
    IF ~InGrid(G.grid, pos) THEN Outcome(G, <<>>, PanicIndex)
    ELSE IF G.game_state # "DuringGame" THEN Outcome(G, <<>>, "none")
    ELSE LET image == CellAt(G.grid, pos).image
         IN  IF image = "Hidden" THEN show(G, <<pos>>)
             ELSE IF ~shown(image) THEN toggle_tofrom_question_marked(G, pos)
             ELSE show(G, get_hidden_neighbors(G.grid, G.width, G.height, pos))

\* The part of left_click after start_game (source lines 204-217).
LeftClickBody(G, pos) ==
    IF ~InGrid(G.grid, pos) THEN Outcome(G, <<>>, PanicIndex)
    ELSE IF G.game_state # "DuringGame" THEN Outcome(G, <<>>, "none")
    ELSE LET image == CellAt(G.grid, pos).image
             o == IF image = "Hidden" THEN show(G, <<pos>>)
                  ELSE IF ~shown(image) THEN toggle_tofrom_question_marked(G, pos)
                  ELSE show(G, get_hidden_neighbors(G.grid, G.width, G.height, pos))
         IN  IF o.panic # "none" THEN o
             ELSE IF o.game.hidden = o.game.total_mines
             THEN LET win == handle_win(o.game)
                  IN  Outcome(win.game, o.result \o win.result, "none")
             ELSE o

\* left_click whose first call only places the mines.
left_click_StartOnly(G, pos) ==
    IF ~ClickAssertion(G, pos) THEN {Outcome(G, <<>>, PanicLeftAssert)}
    ELSE IF G.game_state = "BeforeGame"
    THEN start_game(G, pos)
    ELSE {LeftClickBody(G, pos)}

\* Game::left_click, as the set of its possible outcomes.
left_click(G, pos) ==
    IF ~ClickAssertion(G, pos) THEN {Outcome(G, <<>>, PanicLeftAssert)}
    ELSE IF G.game_state = "BeforeGame"
    THEN {IF s.panic # "none" THEN s ELSE LeftClickBody(s.game, pos) :
            s \in start_game(G, pos)}
    ELSE {LeftClickBody(G, pos)}

\* right_click that looks at the cell before it looks at the game state.
right_click_IndexFirst(G, pos) ==
    IF ~ClickAssertion(G, pos) THEN Outcome(G, <<>>, PanicRightAssert)
    ELSE IF ~InGrid(G.grid, pos) THEN Outcome(G, <<>>, PanicIndex)
    ELSE IF shown(CellAt(G.grid, pos).image) \/ G.game_state = "BeforeGame"
            \/ G.game_state = "AfterGame"
    THEN Outcome(G, <<>>, "none")
    ELSE toggle_tofrom_hidden(G, pos)

\* right_click that only checks for BeforeGame.
right_click_NoAfterCheck(G, pos) ==
    IF ~ClickAssertion(G, pos) THEN Outcome(G, <<>>, PanicRightAssert)
    ELSE IF G.game_state = "BeforeGame" THEN Outcome(G, <<>>, "none")
    ELSE IF ~InGrid(G.grid, pos) THEN Outcome(G, <<>>, PanicIndex)
    ELSE IF shown(CellAt(G.grid, pos).image) THEN Outcome(G, <<>>, "none")
    ELSE toggle_tofrom_hidden(G, pos)

\* right_click that ends the game once the flags are as many as the mines.
right_click_WinOnFlags(G, pos) ==
    IF ~ClickAssertion(G, pos) THEN Outcome(G, <<>>, PanicRightAssert)
    ELSE IF G.game_state = "BeforeGame" \/ G.game_state = "AfterGame"
    THEN Outcome(G, <<>>, "none")
    ELSE IF ~InGrid(G.grid, pos) THEN Outcome(G, <<>>, PanicIndex)
    ELSE IF shown(CellAt(G.grid, pos).image) THEN Outcome(G, <<>>, "none")
    ELSE LET o == toggle_tofrom_hidden(G, pos)
         IN  IF o.panic = "none" /\ o.game.flags = o.game.total_mines
             THEN Outcome([o.game EXCEPT !.game_state = "AfterGame"], o.result, "none")
             ELSE o

\* Game::right_click
right_click(G, pos) ==
    IF ~ClickAssertion(G, pos) THEN Outcome(G, <<>>, PanicRightAssert)
    ELSE IF G.game_state = "BeforeGame" \/ G.game_state = "AfterGame"
    THEN Outcome(G, <<>>, "none")
    ELSE IF ~InGrid(G.grid, pos) THEN Outcome(G, <<>>, PanicIndex)
    ELSE IF shown(CellAt(G.grid, pos).image) THEN Outcome(G, <<>>, "none")
    ELSE toggle_tofrom_hidden(G, pos)

\* reset that leaves the flag counter.
reset_KeepFlags(G) == [G EXCEPT !.game_state = "BeforeGame"]

\* Game::reset
reset(G) == [G EXCEPT !.flags = 0, !.game_state = "BeforeGame"]

\* resize that keeps the old number of mines.
resize_KeepMines(G, w, h, num_mines) ==
    [reset(G) EXCEPT !.width = w, !.height = h]

\* Game::resize
resize(G, w, h, num_mines) ==
    [reset(G) EXCEPT !.width = w, !.height = h, !.total_mines = num_mines]

\* The product of two dimensions as the code computes it: both are cast to
\* u16 before the multiplication, which keeps 16 bits.
MulCount(a, b) == (a * b) % (CountMax + 1)

PanicInvalidGrid == "Invalid grid"

\* The assertion with the product taken in the width of the dimensions.
ValidConfig_U8(w, h, mines) ==
    (w * h) % (DimMax + 1) > mines /\ w # 0 /\ h # 0 /\ mines # 0

\* The assertion of Game::new (source lines 161-164).
ValidConfig(w, h, mines) ==
    MulCount(w, h) > mines /\ w # 0 /\ h # 0 /\ mines # 0

\* Game::new
new(w, h, mines) ==
    [grid |-> <<>>, game_state |-> "BeforeGame", width |-> w, height |-> h,
     flags |-> 0, hidden |-> MulCount(w, h), total_mines |-> mines]

\* get_all_images that always reads the grid.
get_all_images_Live(G) ==
    [r \in 1..Len(G.grid) |-> [c \in 1..Len(G.grid[r]) |-> G.grid[r][c].image]]

\* Game::get_all_images
get_all_images(G) ==
    IF G.game_state = "BeforeGame"
    THEN [r \in 1..G.height |-> [c \in 1..G.width |-> "Hidden"]]
    ELSE [r \in 1..Len(G.grid) |-> [c \in 1..Len(G.grid[r]) |-> G.grid[r][c].image]]

(* ---- the state machine ---- *)

VARIABLES
    grid,         \* Game.grid.data
    game_state,   \* Game.game_state
    width,        \* Game.width
    height,       \* Game.height
    flags,        \* Game.flags
    hidden,       \* Game.hidden
    total_mines,  \* Game.total_mines
    result,       \* the list the last call returned
    call,         \* the last call: [op, pos]
    panic         \* "none", or the panic that aborted the last call

gameVars == <<grid, game_state, width, height, flags, hidden, total_mines>>

vars == <<grid, game_state, width, height, flags, hidden, total_mines,
          result, call, panic>>

\* The current Game as a value.
Game == [grid |-> grid, game_state |-> game_state, width |-> width,
         height |-> height, flags |-> flags, hidden |-> hidden,
         total_mines |-> total_mines]

\* The valid (width, height, mines) triples within the bounds.
Configs == {cfg \in (1..MaxDim) \X (1..MaxDim) \X (1..MaxCells) :
              cfg[1] * cfg[2] <= MaxCells /\ ValidConfig(cfg[1], cfg[2], cfg[3])}

\* The positions a caller may pass, in bounds or not.
Positions == (0..(MaxDim - 1)) \X (0..(MaxDim - 1))

\* The variables take the state an outcome describes.
Becomes(o, op, pos) ==
    /\ grid' = o.game.grid
    /\ game_state' = o.game.game_state
    /\ width' = o.game.width
    /\ height' = o.game.height
    /\ flags' = o.game.flags
    /\ hidden' = o.game.hidden
    /\ total_mines' = o.game.total_mines
    /\ result' = o.result
    /\ panic' = o.panic
    /\ call' = [op |-> op, pos |-> pos]

Init ==
    \E cfg \in Configs :
        /\ grid = new(cfg[1], cfg[2], cfg[3]).grid
        /\ game_state = new(cfg[1], cfg[2], cfg[3]).game_state
        /\ width = new(cfg[1], cfg[2], cfg[3]).width
        /\ height = new(cfg[1], cfg[2], cfg[3]).height
        /\ flags = new(cfg[1], cfg[2], cfg[3]).flags
        /\ hidden = new(cfg[1], cfg[2], cfg[3]).hidden
        /\ total_mines = new(cfg[1], cfg[2], cfg[3]).total_mines
        /\ result = <<>>
        /\ call = [op |-> "new", pos |-> <<>>]
        /\ panic = "none"

LeftClick(pos) ==
    /\ panic = "none"
    /\ \E o \in left_click(Game, pos) : Becomes(o, "left_click", pos)

RightClick(pos) ==
    /\ panic = "none"
    /\ Becomes(right_click(Game, pos), "right_click", pos)

Reset ==
    /\ panic = "none"
    /\ Becomes(Outcome(reset(Game), <<>>, "none"), "reset", <<>>)

Resize(cfg) ==
    /\ panic = "none"
    /\ Becomes(Outcome(resize(Game, cfg[1], cfg[2], cfg[3]), <<>>, "none"),
               "resize", cfg)

Next ==
    \/ \E pos \in Positions : LeftClick(pos)
    \/ \E pos \in Positions : RightClick(pos)
    \/ Reset
    \/ \E cfg \in Configs : Resize(cfg)

Spec == Init /\ [][Next]_vars

(* ---- construction on its own ---- *)

\* The dimensions and mine counts a caller may pass to Game::new: the small
\* ones, zero, and the ends of the types.
NewDims == (0..MaxDim) \cup {16, DimMax}

NewMines == (0..(MaxCells + 1)) \cup
            {DimMax, DimMax + 1, DimMax * DimMax - 1, DimMax * DimMax, CountMax}

\* No game has been constructed yet.
InitNew ==
    /\ grid = <<>>
    /\ game_state = "NoGame"
    /\ width = 0
    /\ height = 0
    /\ flags = 0
    /\ hidden = 0
    /\ total_mines = 0
    /\ result = <<>>
    /\ call = [op |-> "none", pos |-> <<>>]
    /\ panic = "none"

\* Game::new(w, h, mines): the assertion, then the constructed value.
New(w, h, mines) ==
    /\ game_state = "NoGame" /\ panic = "none"
    /\ IF ValidConfig(w, h, mines)
       THEN Becomes(Outcome(new(w, h, mines), <<>>, "none"), "new", <<w, h, mines>>)
       ELSE Becomes(Outcome(Game, <<>>, PanicInvalidGrid), "new", <<w, h, mines>>)

NextNew == \E w \in NewDims, h \in NewDims, mines \in NewMines : New(w, h, mines)

SpecNew == InitNew /\ [][NextNew]_vars

(* ---- resize with any arguments ---- *)

\* resize takes whatever the caller passes. These are the smallest triples
\* that Game::new would refuse: a zero width, a zero height, no mines, and as
\* many or more mines than cells.
InvalidConfigs == {cfg \in (0..1) \X (0..1) \X (0..2) :
                     ~ValidConfig(cfg[1], cfg[2], cfg[3])}

NextResize ==
    \/ Next
    \/ \E cfg \in InvalidConfigs : Resize(cfg)

SpecResize == Init /\ [][NextResize]_vars

(* ---- the caller's copy of the board ---- *)

RECURSIVE ApplyUpdates(_, _)
\* The caller writes each returned (position, image) pair, in order, into its
\* copy of the images (State::input, src/src/lib.rs lines 358-370).
ApplyUpdates(view, res) ==
    IF res = <<>> THEN view
    ELSE LET pos == Head(res)[1]
             img == Head(res)[2]
         IN  ApplyUpdates([view EXCEPT ![pos[1] + 1][pos[2] + 1] = img], Tail(res))

(* ---- one game on a board with room for an open region ---- *)

\* The largest board and the most mines of these games.
FloodCells == 6

FloodMines == 1

\* Boards of at least two rows and two columns, so that cells can be marked
\* (see C10) next to cells the first click leaves unrevealed.
FloodConfigs == {cfg \in (2..MaxDim) \X (2..MaxDim) \X (1..FloodMines) :
                   cfg[1] * cfg[2] <= FloodCells /\ ValidConfig(cfg[1], cfg[2], cfg[3])}

InitFlood ==
    \E cfg \in FloodConfigs :
        /\ grid = new(cfg[1], cfg[2], cfg[3]).grid
        /\ game_state = new(cfg[1], cfg[2], cfg[3]).game_state
        /\ width = new(cfg[1], cfg[2], cfg[3]).width
        /\ height = new(cfg[1], cfg[2], cfg[3]).height
        /\ flags = new(cfg[1], cfg[2], cfg[3]).flags
        /\ hidden = new(cfg[1], cfg[2], cfg[3]).hidden
        /\ total_mines = new(cfg[1], cfg[2], cfg[3]).total_mines
        /\ result = <<>>
        /\ call = [op |-> "new", pos |-> <<>>]
        /\ panic = "none"

NextFlood ==
    \/ \E pos \in Positions : LeftClick(pos)
    \/ \E pos \in Positions : RightClick(pos)

SpecFlood == InitFlood /\ [][NextFlood]_vars

(* ---- several games on a board with room for an open region ---- *)

NextReplay ==
    \/ NextFlood
    \/ Reset

SpecReplay == InitFlood /\ [][NextReplay]_vars

(* ---- placement on every board up to 3x3, left clicks only ---- *)

\* The largest dimension and the most cells of these boards.
PlaceDim == 3

PlaceCells == 9

\* Every valid (width, height, mines) within these bounds, the boards full
\* of mines but for one cell included.
PlaceConfigs == {cfg \in (1..PlaceDim) \X (1..PlaceDim) \X (1..PlaceCells) :
                   cfg[1] * cfg[2] <= PlaceCells /\ ValidConfig(cfg[1], cfg[2], cfg[3])}

PlacePositions == (0..(PlaceDim - 1)) \X (0..(PlaceDim - 1))

InitPlace ==
    \E cfg \in PlaceConfigs :
        /\ grid = new(cfg[1], cfg[2], cfg[3]).grid
        /\ game_state = new(cfg[1], cfg[2], cfg[3]).game_state
        /\ width = new(cfg[1], cfg[2], cfg[3]).width
        /\ height = new(cfg[1], cfg[2], cfg[3]).height
        /\ flags = new(cfg[1], cfg[2], cfg[3]).flags
        /\ hidden = new(cfg[1], cfg[2], cfg[3]).hidden
        /\ total_mines = new(cfg[1], cfg[2], cfg[3]).total_mines
        /\ result = <<>>
        /\ call = [op |-> "new", pos |-> <<>>]
        /\ panic = "none"

NextPlace == \E pos \in PlacePositions : LeftClick(pos)

SpecPlace == InitPlace /\ [][NextPlace]_vars

(* ---- vocabulary of the properties ---- *)

\* The positions of a grid.
CellsOf(g) == {<<r - 1, c - 1>> : r \in 1..GridHeight(g), c \in 1..GridWidth(g)}

MinesOf(g) == {p \in CellsOf(g) : CellAt(g, p).mine}

\* The positions whose displayed image is img.
Displayed(G, img) ==
    LET view == get_all_images(G)
    IN  {p \in CellsOf(view) : CellAt(view, p) = img}

\* The positions of the entries of a returned list, and those with image img.
Reported(res) == {res[i][1] : i \in 1..Len(res)}

ReportedAs(res, img) == {res[i][1] : i \in {j \in 1..Len(res) : res[j][2] = img}}

IsClick(c) == c.op \in {"left_click", "right_click"}

\* The call of this step was made with a position inside the board.
InBoundsCall == IsClick(call') /\ ClickAssertion(Game, call'.pos)

(* ---- C1 ---- *)

\* C1: a left_click at an in-bounds position made in BeforeGame completes,
\* leaves the clicked cell a non-mine showing a numeral, and no cell shows
\* SelectedMine.
C1_FirstClickSafe ==
    [][ (game_state = "BeforeGame" /\ call'.op = "left_click" /\ InBoundsCall)
        => /\ panic' = "none"
           /\ ~CellAt(grid', call'.pos).mine
           /\ CellAt(grid', call'.pos).image \in NumeralSet
           /\ \A p \in CellsOf(grid') : CellAt(grid', p).image # "SelectedMine"
      ]_vars

\* A first click on a board where a neighbour of the clicked cell had to
\* become a mine: the clicked cell is the only one revealed.
C1_Witness ==
    /\ call.op = "left_click" /\ panic = "none"
    /\ game_state = "DuringGame"
    /\ hidden + 1 = width * height
    /\ result = <<<<call.pos, CellAt(grid, call.pos).image>>>>
    /\ get_mines_around(grid, width, height, call.pos) > 0

(* ---- C2 ---- *)

\* C2: in DuringGame and AfterGame exactly total_mines cells are mines, and
\* no click made in those states changes which cells are mines.
C2_MinesFixed ==
    /\ [](game_state \in {"DuringGame", "AfterGame"}
            => Cardinality(MinesOf(grid)) = total_mines)
    /\ [][ (game_state \in {"DuringGame", "AfterGame"} /\ IsClick(call'))
            => MinesOf(grid') = MinesOf(grid) ]_vars

\* A game in progress, after a flag toggle, in which all the mines (more than
\* one) lie around one revealed cell: placement gave up safe-zone cells.
C2_Witness ==
    /\ game_state = "DuringGame" /\ panic = "none"
    /\ call.op = "right_click" /\ result # <<>>
    /\ Cardinality(MinesOf(grid)) = total_mines
    /\ total_mines > 1
    /\ \E p \in CellsOf(grid) :
          /\ CellAt(grid, p).image \in NumeralSet
          /\ get_mines_around(grid, width, height, p) = total_mines

(* ---- C3 ---- *)

\* C3: in every reachable state the flags counter equals the number of cells
\* whose displayed image is Flagged.
C3_FlagsCountFlagged == flags = Cardinality(Displayed(Game, "Flagged"))

(* ---- C4 ---- *)

AllMinesFlagged(g) == \A p \in MinesOf(g) : CellAt(g, p).image = "Flagged"

\* C4 as stated: in every reachable state, hidden = total_mines implies that
\* the game is in AfterGame and every mine is Flagged.
C4_Original ==
    hidden = total_mines => (game_state = "AfterGame" /\ AllMinesFlagged(grid))

\* C4 amended: the same in every state where a game has been started
\* (DuringGame or AfterGame); reset and resize leave hidden stale.
C4_HiddenEqualsMinesIsWin ==
    (game_state # "BeforeGame" /\ hidden = total_mines)
        => (game_state = "AfterGame" /\ AllMinesFlagged(grid))

\* A game just won by a click that revealed cells and flagged a mine.
C4_Witness ==
    /\ game_state = "AfterGame" /\ hidden = total_mines
    /\ call.op = "left_click"
    /\ ReportedAs(result, "Flagged") # {}
    /\ Len(result) > Cardinality(ReportedAs(result, "Flagged"))

(* ---- C5 ---- *)

AllSafeRevealed(g) ==
    \A p \in CellsOf(g) : ~CellAt(g, p).mine => CellAt(g, p).image \in NumeralSet

NoneSelected(g) == \A p \in CellsOf(g) : CellAt(g, p).image # "SelectedMine"

\* The mines of the new grid that were not Flagged when the call began
\* its reveal (a first click reveals on a freshly hidden grid).
UnflaggedMinesBefore ==
    {p \in MinesOf(grid') :
        game_state = "BeforeGame" \/ CellAt(grid, p).image # "Flagged"}

\* C5: a left_click ends the game as a win exactly when afterwards every
\* non-mine cell shows a numeral; then every mine is Flagged, the mines that
\* were not Flagged are reported after the reveals, flags = total_mines and
\* no non-mine cell is Flagged.
C5_WinOnLastReveal ==
    [][ (call'.op = "left_click" /\ InBoundsCall /\ game_state # "AfterGame")
        => /\ AllSafeRevealed(grid')
                <=> (game_state' = "AfterGame" /\ NoneSelected(grid'))
           /\ (game_state' = "AfterGame" /\ NoneSelected(grid'))
                => /\ AllMinesFlagged(grid')
                   /\ ReportedAs(result', "Flagged") = UnflaggedMinesBefore
                   /\ \A i, j \in 1..Len(result') :
                        (result'[i][2] \in NumeralSet /\ result'[j][2] = "Flagged")
                            => i < j
                   /\ Cardinality(ReportedAs(result', "Flagged"))
                        + Cardinality({i \in 1..Len(result') : result'[i][2] \in NumeralSet})
                        = Len(result')
                   /\ flags' = total_mines'
                   /\ \A p \in CellsOf(grid') :
                        CellAt(grid', p).image = "Flagged" => CellAt(grid', p).mine
      ]_vars

\* A win in which the last reveal flagged one mine while another mine had
\* been flagged by the player before.
C5_Witness ==
    /\ game_state = "AfterGame" /\ NoneSelected(grid)
    /\ call.op = "left_click"
    /\ ReportedAs(result, "Flagged") # {}
    /\ \E i \in 1..Len(result) : result[i][2] \in NumeralSet
    /\ \E p \in MinesOf(grid) : p \notin Reported(result)
    /\ flags = total_mines

(* ---- C6 ---- *)

Adjacent(p, q) ==
    /\ p # q
    /\ p[1] - q[1] \in -1..1
    /\ p[2] - q[2] \in -1..1

\* The cells a left_click at pos sets out to reveal: the cell itself when it
\* is Hidden, its Hidden neighbours when it is revealed.
Seeds(g, pos) ==
    IF CellAt(g, pos).image = "Hidden" THEN {pos}
    ELSE IF shown(CellAt(g, pos).image)
    THEN {q \in CellsOf(g) : Adjacent(pos, q) /\ CellAt(g, q).image = "Hidden"}
    ELSE {}

\* C6: a left_click in DuringGame whose seeds include a mine ends the game:
\* exactly one cell becomes SelectedMine, it is a mine among the seeds, and it
\* is the first entry of the returned list.
C6_LossSelectsSeedMine ==
    [][ (/\ game_state = "DuringGame" /\ call'.op = "left_click" /\ InBoundsCall
         /\ Seeds(grid, call'.pos) \cap MinesOf(grid) # {})
        => /\ panic' = "none"
           /\ game_state' = "AfterGame"
           /\ result' # <<>>
           /\ result'[1][2] = "SelectedMine"
           /\ result'[1][1] \in Seeds(grid, call'.pos) \cap MinesOf(grid)
           /\ {p \in CellsOf(grid') : CellAt(grid', p).image = "SelectedMine"}
                = {result'[1][1]}
      ]_vars

\* A game lost by a chord: the selected mine is not the clicked cell.
C6_Witness ==
    /\ game_state = "AfterGame" /\ call.op = "left_click"
    /\ result # <<>>
    /\ result[1][2] = "SelectedMine"
    /\ result[1][1] # call.pos
    /\ CellAt(grid, call.pos).image \in NumeralSet

(* ---- C7 ---- *)

\* The step is a losing left_click.
LossStep ==
    /\ game_state = "DuringGame" /\ game_state' = "AfterGame"
    /\ ~NoneSelected(grid')

C8_LossFrame ==
    [][ LossStep =>
        /\ hidden' = hidden
        /\ \A p \in CellsOf(grid) :
            /\ CellAt(grid, p).image \in NumeralSet
                  => CellAt(grid', p).image = CellAt(grid, p).image
            /\ (~CellAt(grid, p).mine
                    /\ CellAt(grid, p).image \in {"Hidden", "QuestionMarked"})
                  => CellAt(grid', p).image = CellAt(grid, p).image
            /\ CellAt(grid', p).image \in NumeralSet
                  => CellAt(grid, p).image \in NumeralSet
        /\ \A i \in 1..Len(result') : result'[i][2] \notin NumeralSet
      ]_vars

\* A game lost by a chord one of whose seeds was safe: that seed is still
\* Hidden next to the clicked numeral.
C8_Witness ==
    /\ game_state = "AfterGame" /\ ~NoneSelected(grid)
    /\ call.op = "left_click"
    /\ CellAt(grid, call.pos).image \in NumeralSet
    /\ \E q \in CellsOf(grid) :
          /\ Adjacent(call.pos, q)
          /\ ~CellAt(grid, q).mine
          /\ CellAt(grid, q).image = "Hidden"

(* ---- C9 ---- *)

\* C9: in AfterGame a click at an in-bounds position returns an empty list
\* and changes nothing of the game; AfterGame is left only by reset or
\* resize, which lead to BeforeGame.
C9_AfterGameAbsorbing ==
    [][ /\ (game_state = "AfterGame" /\ InBoundsCall)
            => (result' = <<>> /\ panic' = "none" /\ UNCHANGED gameVars)
        /\ (game_state = "AfterGame" /\ game_state' # "AfterGame")
            => (call'.op \in {"reset", "resize"} /\ game_state' = "BeforeGame")
        /\ (game_state = "AfterGame" /\ call'.op \in {"reset", "resize"})
            => game_state' = "BeforeGame"
      ]_vars

\* A right_click made on a hidden cell of a finished game.
C9_Witness ==
    /\ game_state = "AfterGame" /\ panic = "none"
    /\ call.op = "right_click"
    /\ ~shown(CellAt(grid, call.pos).image)

(* ---- C10 ---- *)

\* C10: every call at an in-bounds position completes: a call aborts only
\* when its position is outside the board.
C10_NoPanicInBounds ==
    panic # "none" => (IsClick(call) /\ ~ClickAssertion(Game, call.pos))

(* ---- C11 ---- *)

\* The step is a right_click at an in-bounds position on an unrevealed cell
\* of a game in progress.
RightClickOnUnrevealed ==
    /\ game_state = "DuringGame" /\ panic = "none"
    /\ call'.op = "right_click"
    /\ call'.pos[1] < height /\ call'.pos[2] < width
    /\ ~shown(CellAt(grid, call'.pos).image)

\* The step changes the clicked cell to img, flags by d, returns that one
\* pair and leaves the rest of the game alone.
TogglesTo(img, d) ==
    /\ panic' = "none"
    /\ result' = <<<<call'.pos, img>>>>
    /\ grid' = SetImage(grid, call'.pos, img)
    /\ flags' = flags + d
    /\ UNCHANGED <<game_state, width, height, hidden, total_mines>>

\* C11 as stated: in DuringGame a right_click on an unrevealed cell returns
\* one pair; Hidden becomes Flagged (flags + 1), Flagged becomes Hidden
\* (flags - 1), QuestionMarked becomes Flagged (flags + 1).
C11_Original ==
    [][ RightClickOnUnrevealed =>
        LET image == CellAt(grid, call'.pos).image IN
        /\ image = "Hidden" => TogglesTo("Flagged", 1)
        /\ image = "Flagged" => TogglesTo("Hidden", -1)
        /\ image = "QuestionMarked" => TogglesTo("Flagged", 1)
      ]_vars

\* C11 amended: QuestionMarked becomes Hidden and flags stays; and the call
\* returns only at positions with row < width and col < height, elsewhere
\* (on a board that is not square) it aborts on the assertion of
\* toggle_tofrom_given and changes nothing.
C11_RightClickToggle ==
    [][ RightClickOnUnrevealed =>
        LET image == CellAt(grid, call'.pos).image IN
        IF call'.pos[1] < width /\ call'.pos[2] < height
        THEN /\ image = "Hidden" => TogglesTo("Flagged", 1)
             /\ image = "Flagged" => TogglesTo("Hidden", -1)
             /\ image = "QuestionMarked" => TogglesTo("Hidden", 0)
        ELSE /\ panic' = PanicToggleAssert
             /\ result' = <<>>
             /\ UNCHANGED gameVars
      ]_vars

\* A right_click that returned Hidden in a game with a flag elsewhere.
C11_Witness ==
    /\ game_state = "DuringGame" /\ panic = "none"
    /\ call.op = "right_click"
    /\ result = <<<<call.pos, "Hidden">>>>
    /\ flags > 0

(* ---- C12 ---- *)

\* C12: in DuringGame, two right_clicks in a row on a Hidden cell complete
\* and leave the whole game as it was before them.
C12_DoubleRightClick ==
    \A pos \in Positions :
        (/\ game_state = "DuringGame" /\ panic = "none"
         /\ pos[1] < height /\ pos[2] < width
         /\ CellAt(grid, pos).image = "Hidden")
        => LET first == right_click(Game, pos)
               second == right_click(first.game, pos)
           IN  /\ first.panic = "none"
               /\ second.panic = "none"
               /\ second.game = Game

(* ---- C13 ---- *)

\* C13: a right_click at an in-bounds position in BeforeGame, in AfterGame
\* or on a revealed cell returns an empty list and changes nothing, also
\* when the grid has not been allocated yet.
C13_RightClickNoOp ==
    [][ (/\ panic = "none" /\ call'.op = "right_click"
         /\ call'.pos[1] < height /\ call'.pos[2] < width
         /\ \/ game_state \in {"BeforeGame", "AfterGame"}
            \/ shown(CellAt(grid, call'.pos).image))
        => /\ result' = <<>>
           /\ panic' = "none"
           /\ UNCHANGED gameVars
      ]_vars

\* A right_click made on a freshly constructed game: no grid yet.
C13_Witness ==
    /\ game_state = "BeforeGame" /\ panic = "none"
    /\ call.op = "right_click"
    /\ grid = <<>>

(* ---- C14 ---- *)

\* C14: Game::new(width, height, mines) succeeds exactly when width > 0,
\* height > 0, mines > 0 and mines < width * height (the true product, for
\* every 8-bit width and height); on success the game is in BeforeGame with
\* flags = 0 and hidden = width * height; otherwise no game is produced.
C14_NewValidates ==
    call.op = "new" =>
        LET w == call.pos[1]
            h == call.pos[2]
            mines == call.pos[3]
        IN  /\ panic = "none" <=> (w > 0 /\ h > 0 /\ mines > 0 /\ mines < w * h)
            /\ panic = "none" =>
                 /\ game_state = "BeforeGame"
                 /\ flags = 0
                 /\ hidden = w * h
                 /\ width = w /\ height = h /\ total_mines = mines
            /\ panic # "none" => panic = PanicInvalidGrid /\ game_state = "NoGame"

\* The largest board with the largest valid number of mines was constructed.
C14_Witness ==
    /\ call.op = "new"
    /\ call.pos = <<DimMax, DimMax, DimMax * DimMax - 1>>
    /\ game_state = "BeforeGame"
    /\ hidden = DimMax * DimMax

(* ---- C15 ---- *)

\* C15: resize refuses an invalid combination, so the game never holds a
\* configuration with width = 0, height = 0 or total_mines >= width * height.
C15_ConfigStaysValid ==
    /\ width > 0
    /\ height > 0
    /\ total_mines < width * height

(* ---- C16 ---- *)

\* C16: a left_click or right_click at a position outside
\* [0, height) x [0, width), taken against the current width and height
\* (also those a resize has set and no game has yet applied to the grid),
\* aborts on the assertion in every game state and modifies nothing.
C16_OutOfBoundsAsserts ==
    [][ (/\ panic = "none"
         /\ IsClick(call')
         /\ ~(call'.pos[1] < height /\ call'.pos[2] < width))
        => /\ panic' = IF call'.op = "left_click" THEN PanicLeftAssert
                       ELSE PanicRightAssert
           /\ UNCHANGED gameVars
      ]_vars

\* A left_click refused at a position that the grid of the previous, larger
\* board still holds.
C16_Witness ==
    /\ call.op = "left_click"
    /\ panic = PanicLeftAssert
    /\ game_state = "BeforeGame"
    /\ InGrid(grid, call.pos)

(* ---- C17 ---- *)

\* C17: get_all_images returns height rows of width images; in BeforeGame all
\* of them are Hidden whatever the grid still holds from an earlier game or
\* whatever size it has; in DuringGame and AfterGame they are the images of
\* the cells.
C17_AllImages ==
    LET view == get_all_images(Game)
    IN  /\ Len(view) = height
        /\ \A r \in 1..Len(view) :
             /\ Len(view[r]) = width
             /\ \A c \in 1..width :
                  IF game_state = "BeforeGame"
                  THEN view[r][c] = "Hidden"
                  ELSE view[r][c] = CellAt(grid, <<r - 1, c - 1>>).image

\* BeforeGame after a resize, over a grid of another size that still shows
\* a flag and a numeral of the game before.
C17_Witness ==
    /\ game_state = "BeforeGame"
    /\ grid # <<>>
    /\ GridHeight(grid) # height
    /\ \E p \in CellsOf(grid) : CellAt(grid, p).image = "Flagged"
    /\ \E p \in CellsOf(grid) : shown(CellAt(grid, p).image)

(* ---- C18 ---- *)

\* C18: a copy of the board that equals get_all_images() before a left_click
\* or right_click and applies, in order, the pairs the call returns equals
\* get_all_images() after the call; so a copy taken after construction, reset
\* or resize follows the game through every sequence of calls.
C18_UpdateFeed ==
    [][ (panic = "none" /\ IsClick(call'))
        => ApplyUpdates(get_all_images(Game), result') = get_all_images(Game')
      ]_vars

\* A lost game: the call returned the selected mine and more.
C18_Witness ==
    /\ panic = "none"
    /\ call.op = "left_click"
    /\ game_state = "AfterGame"
    /\ Len(result) >= 2
    /\ \E i \in 1..Len(result) : result[i][2] = "SelectedMine"
    /\ \E i \in 1..Len(result) : result[i][2] = "WronglyFlagged"

(* ---- C19 ---- *)

\* The step is the first left_click, in bounds, of a game with one cell
\* fewer mines than cells.
FirstClickAllButOne ==
    /\ game_state = "BeforeGame" /\ panic = "none"
    /\ call'.op = "left_click"
    /\ call'.pos[1] < height /\ call'.pos[2] < width
    /\ total_mines = width * height - 1

\* C19 as stated: with mines = width * height - 1 the game is still in
\* DuringGame after the first left_click, with exactly one cell that is not
\* a mine and not revealed, and a left_click on that cell then wins.
C19_Original ==
    [][ /\ FirstClickAllButOne =>
           /\ game_state' = "DuringGame"
           /\ Cardinality({p \in CellsOf(grid') :
                  ~CellAt(grid', p).mine /\ ~shown(CellAt(grid', p).image)}) = 1
        /\ (/\ game_state = "DuringGame" /\ panic = "none"
            /\ total_mines = width * height - 1
            /\ call'.op = "left_click"
            /\ call'.pos \in CellsOf(grid)
            /\ ~CellAt(grid, call'.pos).mine
            /\ CellAt(grid, call'.pos).image = "Hidden")
           => game_state' = "AfterGame"
      ]_vars

\* C19 amended: with mines = width * height - 1 the first left_click itself
\* wins: the clicked cell is the only cell without a mine, the call reveals
\* it and ends in AfterGame with every other cell Flagged, flags = hidden =
\* total_mines, and reports every cell once, the clicked one first.
C19_FirstClickWins ==
    [][ FirstClickAllButOne =>
        /\ panic' = "none"
        /\ game_state' = "AfterGame"
        /\ hidden' = total_mines /\ flags' = total_mines
        /\ shown(CellAt(grid', call'.pos).image)
        /\ \A p \in CellsOf(grid') :
             IF p = call'.pos THEN ~CellAt(grid', p).mine
             ELSE CellAt(grid', p).mine /\ CellAt(grid', p).image = "Flagged"
        /\ Len(result') = width * height
        /\ result'[1] = <<call'.pos, CellAt(grid', call'.pos).image>>
      ]_vars

\* A game on a board of more than one row and column, with a mine in every
\* cell but one, won by its first click.
C19_Witness ==
    /\ call.op = "left_click" /\ panic = "none"
    /\ game_state = "AfterGame"
    /\ width > 1 /\ height > 1
    /\ total_mines = width * height - 1
    /\ flags = total_mines
    /\ Len(result) = width * height

(* ---- C20 ---- *)

\* The number of mines among the neighbours of p.
CountAround(g, p) == Cardinality({q \in MinesOf(g) : Adjacent(p, q)})

RECURSIVE ZeroRegionFrom(_, _)
\* The 8-connected region of cells without a mine and with count zero that
\* contains the cells of S.
ZeroRegionFrom(g, S) ==
    LET more == {q \in CellsOf(g) : /\ ~CellAt(g, q).mine
                                    /\ CountAround(g, q) = 0
                                    /\ \E p \in S : Adjacent(p, q)}
    IN  IF more \subseteq S THEN S ELSE ZeroRegionFrom(g, S \cup more)

\* A region and every cell adjacent to it.
WithBorder(g, S) == S \cup {q \in CellsOf(g) : \E p \in S : Adjacent(p, q)}

RECURSIVE HiddenReachFrom(_, _)
\* The cells the fill gets to from the cells of S: the Hidden neighbours of
\* every zero-count cell it got to.
HiddenReachFrom(g, S) ==
    LET more == {q \in CellsOf(g) : /\ CellAt(g, q).image = "Hidden"
                                    /\ \E p \in S : /\ CountAround(g, p) = 0
                                                    /\ Adjacent(p, q)}
    IN  IF more \subseteq S THEN S ELSE HiddenReachFrom(g, S \cup more)

\* The step is a left_click, in a game in progress, on a Hidden cell without
\* a mine whose neighbours hold no mine.
FloodClick ==
    /\ game_state = "DuringGame" /\ panic = "none"
    /\ call'.op = "left_click"
    /\ call'.pos[1] < height /\ call'.pos[2] < width
    /\ CellAt(grid, call'.pos).image = "Hidden"
    /\ ~CellAt(grid, call'.pos).mine
    /\ CountAround(grid, call'.pos) = 0

\* C20 as stated: the call reveals every cell of the region of zero-count
\* cells that contains the clicked cell and every cell adjacent to the
\* region, whatever cells are Flagged or QuestionMarked.
C20_Original ==
    [][ FloodClick =>
        \A p \in WithBorder(grid, ZeroRegionFrom(grid, {call'.pos})) :
            shown(CellAt(grid', p).image)
      ]_vars

\* C20 amended: the call reveals exactly the cells the fill gets to from the
\* clicked cell through Hidden cells: the clicked cell, and the Hidden
\* neighbours of every zero-count cell it reveals. Each of them shows its
\* count and is reported once, hidden drops by their number; a Flagged or
\* QuestionMarked cell keeps its image and the fill does not pass it, and
\* no other cell without a mine changes. All revealed cells lie in the
\* region or next to it.
C20_FloodFill ==
    [][ FloodClick =>
        LET reach == HiddenReachFrom(grid, {call'.pos})
            Numerals1(res) == {i \in 1..Len(res) : res[i][2] \in NumeralSet}
        IN  /\ panic' = "none"
            /\ reach \subseteq WithBorder(grid, ZeroRegionFrom(grid, {call'.pos}))
            /\ \A p \in CellsOf(grid) :
                 ~CellAt(grid, p).mine =>
                    CellAt(grid', p).image =
                        IF p \in reach THEN from_number(CountAround(grid, p))
                        ELSE CellAt(grid, p).image
            /\ hidden' = hidden - Cardinality(reach)
            /\ {result'[i][1] : i \in Numerals1(result')} = reach
            /\ Cardinality(Numerals1(result')) = Cardinality(reach)
      ]_vars

\* A fill that went round a flagged cell: the call revealed a Zero and
\* another cell, and a cell without a mine next to that Zero is still
\* Flagged.
C20_Witness ==
    /\ call.op = "left_click" /\ panic = "none"
    /\ game_state = "DuringGame"
    /\ Len(result) >= 2
    /\ \E i \in 1..Len(result) :
         /\ result[i][2] = "Zero"
         /\ \E q \in CellsOf(grid) :
              /\ Adjacent(result[i][1], q)
              /\ ~CellAt(grid, q).mine
              /\ CellAt(grid, q).image = "Flagged"

(* ---- C21 ---- *)

\* The clipped 3x3 neighbourhood of pos, as a set.
Block(pos) == {p \in (0..(height - 1)) \X (0..(width - 1)) :
                 p = pos \/ Adjacent(p, pos)}

\* C21: when the cells outside the clipped 3x3 neighbourhood of the first
\* click are at least total_mines, the neighbourhood gets no mine, the
\* clicked cell shows Zero and all its neighbours are revealed.
C21_SafeZone ==
    [][ (/\ game_state = "BeforeGame" /\ panic = "none"
         /\ call'.op = "left_click"
         /\ call'.pos[1] < height /\ call'.pos[2] < width
         /\ width * height - Cardinality(Block(call'.pos)) >= total_mines)
        => /\ panic' = "none"
           /\ \A p \in Block(call'.pos) :
                /\ ~CellAt(grid', p).mine
                /\ shown(CellAt(grid', p).image)
           /\ CellAt(grid', call'.pos).image = "Zero"
           /\ result'[1] = <<call'.pos, "Zero">>
      ]_vars

\* A first click in a corner of a board of two rows or more that opened its
\* whole neighbourhood and did not end the game.
C21_Witness ==
    /\ call.op = "left_click" /\ panic = "none"
    /\ game_state = "DuringGame"
    /\ call.pos = <<0, 0>>
    /\ result[1] = <<<<0, 0>>, "Zero">>
    /\ Len(result) = 4
    /\ hidden = width * height - 4

(* ---- C22 ---- *)

\* C22: in DuringGame a left_click on a Flagged cell makes it QuestionMarked
\* and flags one less, on a QuestionMarked cell makes it Flagged and flags
\* one more; the call returns that one change, reveals nothing, leaves
\* hidden and game_state alone, also when the cell is a mine.
C22_LeftClickCyclesMark ==
    [][ (/\ game_state = "DuringGame" /\ panic = "none"
         /\ call'.op = "left_click"
         /\ call'.pos[1] < height /\ call'.pos[2] < width
         /\ CellAt(grid, call'.pos).image \in {"Flagged", "QuestionMarked"})
        => IF CellAt(grid, call'.pos).image = "Flagged"
           THEN TogglesTo("QuestionMarked", -1)
           ELSE TogglesTo("Flagged", 1)
      ]_vars

\* A left_click turned the flag on a mine into a question mark.
C22_Witness ==
    /\ call.op = "left_click" /\ panic = "none"
    /\ game_state = "DuringGame"
    /\ result = <<<<call.pos, "QuestionMarked">>>>
    /\ CellAt(grid, call.pos).mine

(* ---- C23 ---- *)

\* The neighbours of pos with image img.
NeighboursShowing(g, pos, img) ==
    {q \in CellsOf(g) : Adjacent(pos, q) /\ CellAt(g, q).image = img}

\* The step is a left_click, in a game in progress, on a revealed cell none
\* of whose Hidden neighbours is a mine.
SafeChord ==
    /\ game_state = "DuringGame" /\ panic = "none"
    /\ call'.op = "left_click"
    /\ call'.pos[1] < height /\ call'.pos[2] < width
    /\ shown(CellAt(grid, call'.pos).image)
    /\ \A q \in NeighboursShowing(grid, call'.pos, "Hidden") : ~CellAt(grid, q).mine

\* What a safe chord reveals: the Hidden neighbours and what the fill gets to
\* from them, each showing its count, and nothing else among the cells
\* without a mine; the clicked cell is not reported.
ChordReveals ==
    LET seeds == NeighboursShowing(grid, call'.pos, "Hidden")
        reach == HiddenReachFrom(grid, seeds)
    IN  /\ panic' = "none"
        /\ \A p \in CellsOf(grid) :
             ~CellAt(grid, p).mine =>
                CellAt(grid', p).image =
                    IF p \in reach THEN from_number(CountAround(grid, p))
                    ELSE CellAt(grid, p).image
        /\ hidden' = hidden - Cardinality(reach)
        /\ call'.pos \notin Reported(result')

\* C23 as stated: a chord reveals exactly its Hidden neighbours (and the fill
\* from them) however many neighbours are flagged, never reports the clicked
\* cell, and every Flagged or QuestionMarked neighbour keeps its image.
C23_Original ==
    [][ SafeChord =>
        /\ ChordReveals
        /\ \A q \in NeighboursShowing(grid, call'.pos, "Flagged")
                    \cup NeighboursShowing(grid, call'.pos, "QuestionMarked") :
             CellAt(grid', q).image = CellAt(grid, q).image
      ]_vars

\* C23 amended: as stated, but a QuestionMarked neighbour keeps its image
\* only if it is not a mine or the chord does not win the game; when the
\* chord reveals the last cell without a mine, handle_win turns every mine
\* that is not Flagged, QuestionMarked neighbours included, into Flagged.
C23_Chord ==
    [][ SafeChord =>
        /\ ChordReveals
        /\ \A q \in NeighboursShowing(grid, call'.pos, "Flagged") :
             CellAt(grid', q).image = "Flagged"
        /\ \A q \in NeighboursShowing(grid, call'.pos, "QuestionMarked") :
             CellAt(grid', q).image =
                 IF CellAt(grid, q).mine /\ hidden' = total_mines
                 THEN "Flagged" ELSE "QuestionMarked"
        /\ game_state' = IF hidden' = total_mines THEN "AfterGame" ELSE "DuringGame"
      ]_vars

\* A chord that won: the clicked cell was revealed before and is not in the
\* list, which holds a revealed neighbour and a mine turned Flagged.
C23_Witness ==
    /\ call.op = "left_click" /\ panic = "none"
    /\ game_state = "AfterGame"
    /\ call.pos \notin Reported(result)
    /\ \E i \in 1..Len(result) :
         result[i][2] \in NumeralSet /\ Adjacent(call.pos, result[i][1])
    /\ \E i \in 1..Len(result) :
         result[i][2] = "Flagged" /\ Adjacent(call.pos, result[i][1])

(* ---- C24 ---- *)

\* The mine bit of every cell, row by row.
MineBits(g) == [r \in 1..Len(g) |-> [c \in 1..Len(g[r]) |-> g[r][c].mine]]

\* C24: a right_click never changes game_state, hidden or a mine bit, so
\* flagging every mine while a cell without a mine is unrevealed does not
\* end the game; a step that ends a game is a left_click.
C24_RightClickFrame ==
    [][ /\ (panic = "none" /\ call'.op = "right_click")
           => /\ game_state' = game_state
              /\ hidden' = hidden
              /\ MineBits(grid') = MineBits(grid)
        /\ (game_state # "AfterGame" /\ game_state' = "AfterGame")
           => call'.op = "left_click"
      ]_vars

\* The right_click that flagged the last mine, with a cell without a mine
\* still unrevealed and the game still in progress.
C24_Witness ==
    /\ call.op = "right_click" /\ panic = "none"
    /\ game_state = "DuringGame"
    /\ result = <<<<call.pos, "Flagged">>>>
    /\ flags = total_mines
    /\ \A p \in MinesOf(grid) : CellAt(grid, p).image = "Flagged"
    /\ \E p \in CellsOf(grid) : ~CellAt(grid, p).mine /\ ~shown(CellAt(grid, p).image)

(* ---- C25 ---- *)

\* C25: in every DuringGame and AfterGame state hidden is the number of
\* cells whose image is Hidden, Flagged or QuestionMarked.
C25_HiddenCountsUnrevealed ==
    game_state \in {"DuringGame", "AfterGame"}
    => hidden = Cardinality({p \in CellsOf(grid) : ~shown(CellAt(grid, p).image)})

(* ---- C26 ---- *)

\* The cells of g with a revealed image.
Revealed(g) == {p \in CellsOf(g) : shown(CellAt(g, p).image)}

\* C26: reset, from any state, sets game_state to BeforeGame and flags to 0;
\* and a first left_click, whatever an earlier game left in the grid, starts
\* a fresh game: hidden counts the cells the click did not reveal, flags is
\* 0 unless the click wins, every cell the click did not reveal is Hidden
\* (or, after a win, a mine showing Flagged), and the cells it revealed are
\* the ones it reports, as numerals.
C26_ResetThenFresh ==
    [][ /\ (panic = "none" /\ call'.op = "reset")
           => /\ game_state' = "BeforeGame"
              /\ flags' = 0
              /\ panic' = "none"
        /\ (/\ game_state = "BeforeGame" /\ panic = "none"
            /\ call'.op = "left_click"
            /\ call'.pos[1] < height /\ call'.pos[2] < width)
           => /\ panic' = "none"
              /\ hidden' = width * height - Cardinality(Revealed(grid'))
              /\ Revealed(grid') = Reported(result') \ ReportedAs(result', "Flagged")
              /\ \A p \in Revealed(grid') : CellAt(grid', p).image \in NumeralSet
              /\ IF game_state' = "DuringGame"
                 THEN /\ flags' = 0
                      /\ \A p \in CellsOf(grid') \ Revealed(grid') :
                           CellAt(grid', p).image = "Hidden"
                 ELSE /\ game_state' = "AfterGame"
                      /\ hidden' = total_mines
                      /\ flags' = total_mines
                      /\ \A p \in CellsOf(grid') \ Revealed(grid') :
                           CellAt(grid', p).mine /\ CellAt(grid', p).image = "Flagged"
      ]_vars

\* Just after the reset of a lost game that had a flag: the grid still
\* shows the selected mine and the flag, and the counter is back at 0.
C26_Witness ==
    /\ call.op = "reset" /\ panic = "none"
    /\ game_state = "BeforeGame"
    /\ flags = 0
    /\ \E p \in CellsOf(grid) : CellAt(grid, p).image = "SelectedMine"
    /\ \E p \in CellsOf(grid) : CellAt(grid, p).image \in {"Flagged", "WronglyFlagged"}

(* ---- C27 ---- *)

\* C27: resize(w, h, m) with a valid combination, in any state, sets
\* game_state to BeforeGame, flags to 0 and width, height, total_mines to
\* w, h, m and leaves the grid; the first left_click after it leaves a grid
\* of exactly height rows of width cells with exactly total_mines mines,
\* whether the dimensions differ from the grid's or not.
C27_ResizeThenFirstClick ==
    [][ /\ (panic = "none" /\ call'.op = "resize"
            /\ ValidConfig(call'.pos[1], call'.pos[2], call'.pos[3]))
           => /\ game_state' = "BeforeGame"
              /\ flags' = 0
              /\ width' = call'.pos[1]
              /\ height' = call'.pos[2]
              /\ total_mines' = call'.pos[3]
              /\ grid' = grid
              /\ panic' = "none"
        /\ (/\ game_state = "BeforeGame" /\ panic = "none"
            /\ call'.op = "left_click"
            /\ call'.pos[1] < height /\ call'.pos[2] < width)
           => /\ panic' = "none"
              /\ Len(grid') = height
              /\ \A r \in 1..Len(grid') : Len(grid'[r]) = width
              /\ Cardinality(MinesOf(grid')) = total_mines
      ]_vars

\* Just after a resize to the dimensions the grid already has, with another
\* number of mines than the grid holds.
C27_Witness ==
    /\ call.op = "resize" /\ panic = "none"
    /\ game_state = "BeforeGame"
    /\ grid # <<>>
    /\ GridHeight(grid) = height /\ GridWidth(grid) = width
    /\ Cardinality(MinesOf(grid)) # total_mines

(* ---- C28 ---- *)

\* C28: in every reachable state a cell showing a numeral is not a mine and
\* its numeral is the number of mines among its neighbours; the count the
\* code takes over the 3x3 block, the cell included, is that same number, is
\* at most 8, and from_number is never called above 8.
C28_NumeralsCountNeighbours ==
    /\ panic # PanicFromNumber
    /\ \A p \in CellsOf(grid) :
         CellAt(grid, p).image \in NumeralSet =>
            /\ ~CellAt(grid, p).mine
            /\ CellAt(grid, p).image = from_number(CountAround(grid, p))
            /\ get_mines_around(grid, GridWidth(grid), GridHeight(grid), p)
                 = CountAround(grid, p)
            /\ CountAround(grid, p) <= 8

\* A cell showing Eight: all of its eight neighbours are mines.
C28_Witness ==
    /\ panic = "none"
    /\ \E p \in CellsOf(grid) :
         /\ CellAt(grid, p).image = "Eight"
         /\ Cardinality({m \in MinesOf(grid) : Adjacent(p, m)}) = 8

(* ---- C29 ---- *)

\* The step is a first left_click, in bounds.
FirstClick ==
    /\ game_state = "BeforeGame" /\ panic = "none"
    /\ call'.op = "left_click"
    /\ call'.pos[1] < height /\ call'.pos[2] < width

\* The number of cells outside the clipped 3x3 neighbourhood of pos.
OutsideBlock(pos) == width * height - Cardinality(Block(pos))

\* C29: when the cells outside the safe zone are fewer than total_mines,
\* placement completes, exactly total_mines minus that many cells of the
\* safe zone become mines, the clicked cell is not one of them, and every
\* cell outside the safe zone becomes a mine.
C29_Sacrifice ==
    [][ (FirstClick /\ OutsideBlock(call'.pos) < total_mines)
        => /\ panic' = "none"
           /\ Cardinality(MinesOf(grid') \cap Block(call'.pos))
                = total_mines - OutsideBlock(call'.pos)
           /\ call'.pos \notin MinesOf(grid')
           /\ CellsOf(grid') \ Block(call'.pos) \subseteq MinesOf(grid')
      ]_vars

\* A first click in the corner of a board of at least two rows and columns
\* with cells outside the safe zone: some cell of the four-cell safe zone
\* was made a mine, and the game goes on.
C29_Witness ==
    /\ call = [op |-> "left_click", pos |-> <<0, 0>>] /\ panic = "none"
    /\ game_state = "DuringGame"
    /\ hidden = width * height - 1
    /\ Cardinality(Block(<<0, 0>>)) = 4
    /\ OutsideBlock(<<0, 0>>) > 0
    /\ MinesOf(grid) \cap Block(<<0, 0>>) # {}
    /\ Cardinality(Block(<<0, 0>>) \ MinesOf(grid)) >= 2

(* ---- C30 ---- *)

\* The cells outside the clipped 3x3 neighbourhood of pos.
OutsideCells(pos) == ((0..(height - 1)) \X (0..(width - 1))) \ Block(pos)

\* The mines the placement pass has to place outside the safe zone.
MinesOutside(pos) ==
    IF OutsideBlock(pos) < total_mines THEN OutsideBlock(pos) ELSE total_mines

\* The cells the pass visits for a first click at pos, in order.
PassOrder(pos) ==
    LET safe_cells == get_3x3(width, height, pos)
    IN  FillOrder(width, height, safe_cells[1], PosMax(safe_cells))

\* C30: for a first click at any in-bounds position, the four regions of the
\* placement pass hold every cell outside the safe zone exactly once, and
\* every arrangement of the mines to place over those cells is the result of
\* some run of the pass; the pass never draws from an empty range and puts
\* exactly that many mines outside the safe zone.
C30_PlacementPass ==
    /\ [] ( (game_state = "BeforeGame" /\ panic = "none") =>
            \A pos \in (0..(height - 1)) \X (0..(width - 1)) :
               /\ Len(PassOrder(pos)) = Cardinality(OutsideCells(pos))
               /\ {PassOrder(pos)[i] : i \in 1..Len(PassOrder(pos))} = OutsideCells(pos)
               /\ \A arrangement \in
                      {A \in SUBSET OutsideCells(pos) :
                          Cardinality(A) = MinesOutside(pos)} :
                     \E o \in start_game(Game, pos) :
                        /\ o.panic = "none"
                        /\ MinesOf(o.game.grid) \ Block(pos) = arrangement )
    /\ [][ FirstClick =>
           /\ panic' = "none"
           /\ Cardinality(MinesOf(grid') \ Block(call'.pos))
                = MinesOutside(call'.pos)
         ]_vars

\* A first click in a corner of a 3x3 board that left mines and free cells
\* outside the safe zone, the last cell of the pass free and the one before
\* it mined.
C30_Witness ==
    /\ call = [op |-> "left_click", pos |-> <<0, 0>>] /\ panic = "none"
    /\ game_state = "DuringGame"
    /\ width = 3 /\ height = 3
    /\ MinesOf(grid) \cap Block(<<0, 0>>) = {}
    /\ ~CellAt(grid, <<2, 2>>).mine
    /\ CellAt(grid, <<2, 1>>).mine
    /\ CellAt(grid, <<0, 2>>).mine
    /\ Cardinality(Revealed(grid)) = 4

(* ---- C31 ---- *)

\* The stack left_click hands to show for a click at pos in a game in
\* progress (source lines 206-212).
ShowSeeds(G, pos) ==
    IF CellAt(G.grid, pos).image = "Hidden" THEN <<pos>>
    ELSE IF shown(CellAt(G.grid, pos).image)
    THEN get_hidden_neighbors(G.grid, G.width, G.height, pos)
    ELSE <<>>

\* The reveal of the stack cells in game G empties the stack: it pops each
\* seed once and at most eight positions for every cell it reveals.
RevealEmpties(G, cells) ==
    FirstMineSeed(G.grid, cells) = 0 =>
        RevealPops(G, cells) <= Len(cells) + 8 * Len(Reveal(G, cells, <<>>).result)

\* C31: the work stack of a reveal always empties, for the first click on
\* any placement and for every click in a game in progress; and the list a
\* left_click returns holds no position twice.
C31_RevealTerminates ==
    /\ [] ( panic = "none" =>
            \A pos \in (0..(height - 1)) \X (0..(width - 1)) :
               /\ game_state = "BeforeGame" =>
                    \A o \in start_game(Game, pos) : RevealEmpties(o.game, <<pos>>)
               /\ game_state = "DuringGame" =>
                    RevealEmpties(Game, ShowSeeds(Game, pos)) )
    /\ [][ (panic = "none" /\ call'.op = "left_click")
           => Cardinality(Reported(result')) = Len(result')
         ]_vars

\* A fill that pushed a position twice: two adjacent Zeros were revealed, and
\* after both of them a cell adjacent to both.
C31_Witness ==
    /\ call.op = "left_click" /\ panic = "none"
    /\ \E i \in 1..Len(result) : \E j \in 1..Len(result) : \E k \in 1..Len(result) :
         /\ i < j /\ j < k
         /\ result[i][2] = "Zero" /\ result[j][2] = "Zero"
         /\ Adjacent(result[i][1], result[j][1])
         /\ Adjacent(result[i][1], result[k][1])
         /\ Adjacent(result[j][1], result[k][1])

(* ---- C32 ---- *)

\* The cells of g showing Flagged or QuestionMarked.
Marked(g) == {p \in CellsOf(g) : CellAt(g, p).image \in {"Flagged", "QuestionMarked"}}

\* C32: a left_click that leaves the game in progress changes the image of
\* no cell that was Flagged or QuestionMarked before it, except the clicked
\* cell; no marked cell becomes a numeral.
C32_MarksSurviveLeftClick ==
    [][ (/\ game_state = "DuringGame" /\ panic = "none"
         /\ call'.op = "left_click"
         /\ game_state' = "DuringGame")
        => \A p \in Marked(grid) \ {call'.pos} :
              CellAt(grid', p).image = CellAt(grid, p).image
      ]_vars

\* A click that revealed a Zero next to a marked cell without a mine, which
\* is still marked.
C32_Witness ==
    /\ call.op = "left_click" /\ panic = "none"
    /\ game_state = "DuringGame"
    /\ \E i \in 1..Len(result) :
         /\ result[i][2] = "Zero"
         /\ \E q \in Marked(grid) :
              /\ Adjacent(result[i][1], q)
              /\ ~CellAt(grid, q).mine
              /\ q # call.pos

(* ---- C33 ---- *)

\* C33: in every DuringGame state hidden > total_mines and some cell without
\* a mine is unrevealed; the left_click that brings hidden down to
\* total_mines ends in AfterGame itself, and a losing click runs no win
\* handling: it flags nothing and leaves flags and hidden alone.
C33_DuringGameHasWork ==
    /\ [] ( game_state = "DuringGame" =>
              /\ hidden > total_mines
              /\ \E p \in CellsOf(grid) :
                   ~CellAt(grid, p).mine /\ ~shown(CellAt(grid, p).image) )
    /\ [][ /\ (panic = "none" /\ call'.op = "left_click" /\ panic' = "none"
               /\ game_state' # "BeforeGame" /\ hidden' = total_mines')
              => game_state' = "AfterGame"
           /\ LossStep =>
                /\ ReportedAs(result', "Flagged") = {}
                /\ flags' = flags
                /\ hidden' = hidden
         ]_vars

\* A game in progress one reveal away from its end: hidden is one more than
\* total_mines.
C33_Witness ==
    /\ game_state = "DuringGame" /\ panic = "none"
    /\ call.op = "left_click"
    /\ hidden = total_mines + 1
    /\ Cardinality(Revealed(grid)) >= 1

(* ---- C34 ---- *)

LossImages == {"Mine", "SelectedMine", "WronglyFlagged"}

\* The images get_all_images shows at the positions of the set S.
ShownAt(S) == {CellAt(get_all_images(Game), p) : p \in S}

\* C34: Mine, SelectedMine and WronglyFlagged are displayed only in
\* AfterGame reached by a loss (some cell shows SelectedMine); in DuringGame
\* every image is a numeral, Hidden, Flagged or QuestionMarked; in AfterGame
\* reached by a win every cell without a mine shows a numeral and every mine
\* shows Flagged.
C34_LossImagesOnlyAfterLoss ==
    LET all == CellsOf(get_all_images(Game))
    IN  /\ ShownAt(all) \cap LossImages # {}
           => (game_state = "AfterGame" /\ ~NoneSelected(grid))
        /\ game_state = "DuringGame"
           => ShownAt(all) \subseteq NumeralSet \cup {"Hidden", "Flagged", "QuestionMarked"}
        /\ (game_state = "AfterGame" /\ NoneSelected(grid))
           => /\ ShownAt(all \ MinesOf(grid)) \subseteq NumeralSet
              /\ ShownAt(MinesOf(grid)) = {"Flagged"}

\* A lost game: the board displays the selected mine, a wrong flag and a
\* numeral.
C34_Witness ==
    /\ game_state = "AfterGame" /\ panic = "none"
    /\ "SelectedMine" \in ShownAt(CellsOf(grid))
    /\ "WronglyFlagged" \in ShownAt(CellsOf(grid))
    /\ ShownAt(CellsOf(grid)) \cap NumeralSet # {}

(* ---- C35 ---- *)

\* C35: an in-bounds left_click in BeforeGame leaves BeforeGame in that same
\* call: afterwards the game is in DuringGame, or in AfterGame by a win, and
\* the returned list begins with the clicked cell and its numeral.
\* game_state never goes from BeforeGame to AfterGame by a loss, and from
\* DuringGame to BeforeGame only by reset or resize.
C35_FirstClickLeavesBeforeGame ==
    [][ /\ FirstClick
           => /\ panic' = "none"
              /\ game_state' \in {"DuringGame", "AfterGame"}
              /\ Len(result') >= 1
              /\ result'[1] = <<call'.pos, CellAt(grid', call'.pos).image>>
              /\ result'[1][2] \in NumeralSet
              /\ game_state' = "AfterGame"
                 => (hidden' = total_mines /\ AllMinesFlagged(grid'))
        /\ (game_state = "BeforeGame" /\ game_state' = "AfterGame")
           => (call'.op = "left_click" /\ NoneSelected(grid'))
        /\ (game_state = "DuringGame" /\ game_state' = "BeforeGame")
           => call'.op \in {"reset", "resize"}
        /\ (game_state = "BeforeGame" /\ game_state' # "BeforeGame")
           => call'.op = "left_click"
      ]_vars

\* A first click on a board of two rows and columns or more that revealed
\* the clicked cell and left the game in progress.
C35_Witness ==
    /\ call.op = "left_click" /\ panic = "none"
    /\ game_state = "DuringGame"
    /\ width > 1 /\ height > 1
    /\ flags = 0
    /\ result = <<<<call.pos, CellAt(grid, call.pos).image>>>>
    /\ Revealed(grid) = {call.pos}
    /\ Marked(grid) = {}

(* ---- C36 ---- *)

\* The board sizes at both ends of the u8 range.
EdgeDims == {1, 2, DimMax - 1, DimMax}

\* The positions of a w x h board next to one of its edges.
EdgePositions(w, h) ==
    {pos \in ({0, 1, h - 2, h - 1} \cap (0..(h - 1)))
                \X ({0, 1, w - 2, w - 1} \cap (0..(w - 1))) : TRUE}

\* On boards of up to 255 rows and columns the last safe cell of a click is
\* at most (height - 1, width - 1), so adding 1 to its row or column stays
\* within u8.
PlacementArithmeticFits ==
    \A w \in EdgeDims, h \in EdgeDims :
        \A pos \in EdgePositions(w, h) :
            /\ get_3x3(w, h, pos) # <<>>
            /\ PosMax(get_3x3(w, h, pos))[1] <= h - 1
            /\ PosMax(get_3x3(w, h, pos))[2] <= w - 1
            /\ ~NextNormalOverflows(PosMax(get_3x3(w, h, pos)))

\* The cells that were Hidden before the step and show a numeral after it.
NewlyRevealed ==
    {p \in CellsOf(grid) \cap CellsOf(grid') :
        CellAt(grid, p).image = "Hidden" /\ CellAt(grid', p).image \in NumeralSet}

\* What a step does to the counters: flags goes down only by 1, on a click
\* at a cell that was Flagged and no longer is, or to 0 on reset and resize;
\* hidden goes down during a game by the number of Hidden cells the click
\* revealed, and a first click sets it to the number of unrevealed cells.
CounterSteps ==
    /\ flags' < flags
       => \/ call'.op \in {"reset", "resize"} /\ flags' = 0
          \/ /\ IsClick(call') /\ game_state = "DuringGame"
             /\ flags' = flags - 1
             /\ CellAt(grid, call'.pos).image = "Flagged"
             /\ CellAt(grid', call'.pos).image # "Flagged"
    /\ (game_state = "DuringGame" /\ hidden' # hidden)
       => /\ call'.op = "left_click"
          /\ hidden - hidden' = Cardinality(NewlyRevealed)
          /\ hidden' < hidden
    /\ (FirstClick /\ panic' = "none")
       => hidden' = width * height - Cardinality(Revealed(grid'))

\* C36 as stated: in every state of a valid game no counter has wrapped,
\* flags is within 0..width*height and hidden within
\* total_mines..width*height.
C36_Original ==
    /\ [](/\ panic # PanicOverflow
          /\ flags \in 0..(width * height)
          /\ hidden \in total_mines..(width * height)
          /\ PlacementArithmeticFits)
    /\ [][CounterSteps]_vars

\* C36: no operation on a valid game wraps a counter; flags stays within
\* 0..width*height in every state and is decremented only by a click that
\* unflags a Flagged cell; once a game has started hidden stays within
\* total_mines..width*height and is decremented only by the number of
\* Hidden cells a left_click reveals (before the first click hidden is
\* whatever the previous game or board left); and last_special_row + 1 and
\* last_special_col + 1 fit in u8 for every board of up to 255 rows and
\* columns.
C36_CountersNeverWrap ==
    /\ [](/\ panic # PanicOverflow
          /\ flags \in 0..(width * height)
          /\ game_state \in {"DuringGame", "AfterGame"}
             => hidden \in total_mines..(width * height)
          /\ PlacementArithmeticFits)
    /\ [][CounterSteps]_vars

\* A left_click turned the only Flagged cell into QuestionMarked: flags
\* went from 1 to 0 while the game is in progress with hidden one above
\* total_mines.
C36_Witness ==
    /\ call.op = "left_click" /\ panic = "none"
    /\ game_state = "DuringGame"
    /\ flags = 0
    /\ result = <<<<call.pos, "QuestionMarked">>>>
    /\ hidden = total_mines + 1
    /\ hidden < width * height

====
